---------------------------- MODULE Spec2Model ----------------------------
(***************************************************************************)
(* Model of report-app.py: one Streamlit script run after another over a   *)
(* fixed remote store.  A run is the top-level script executed from its    *)
(* first line: debug toggle, cache button, the three paginated loaders,    *)
(* preprocessing, exporter filter, merge of area_ha, area filter and the   *)
(* dashboard aggregates.  The st.cache_data memo survives between runs.    *)
(*                                                                         *)
(* Cells are options: {} is a missing value (None / NaN / pd.NA), {x} a    *)
(* present value x.  Strings are sequences of one-character strings.       *)
(* A DataFrame is [columns |-> set of names, rows |-> sequence of rows],   *)
(* a row being a function from the column names to cells.                  *)
(* The purchase_date column and the trend chart built from it are left     *)
(* out; nothing below depends on them.                                     *)
(***************************************************************************)
EXTENDS Integers, Sequences, FiniteSets, TLC

VARIABLES
    remote,              \* the three remote collections (fixed during a behaviour)
    page_size,           \* the loaders' page_size (1000 in the source, scaled here)
    cache,               \* st.cache_data: function name -> memoized return value
    pc,                  \* position of the script run
    debug,               \* st.sidebar.checkbox("Show raw columns/head (debug)")
    clear,               \* st.sidebar.button("Clear data cache")
    trace_df,            \* script globals; Unbound until assigned in this run
    quota_df,
    farmers_df,
    offset,              \* locals of the loader being executed
    all_rows,
    requests,            \* log of the page requests of the running fetch
    selected_exporters,
    trace_df_filtered,
    selected_area_min,
    out,                 \* elements written to the page by this run, in order
    stages               \* log of the script sections entered by this run

vars == <<remote, page_size, cache, pc, debug, clear, trace_df, quota_df,
          farmers_df, offset, all_rows, requests, selected_exporters,
          trace_df_filtered, selected_area_min, out, stages>>

---------------------------------------------------------------------------
\* Bounds of the model.
MaxRows == 2
MaxPageSize == 2

\* head(10) of the top farmers ranking.
TopN == 10

---------------------------------------------------------------------------
\* Cells.
NA == {}

Some(x) == {x}

isna(c) == c = {}

val(c) == CHOOSE x \in c : TRUE

\* A name of the script that has not been assigned in this run.
Unbound == [columns |-> {"<unbound>"}, rows |-> <<>>]

\* A key st.cache_data holds no entry for.
NotCached == [columns |-> {"<not cached>"}, rows |-> <<>>]

bound(df) == df # Unbound

---------------------------------------------------------------------------
\* The remote collections the behaviours range over.
TraceRows ==
    { [id |-> Some(1), farmer_id |-> Some(<<" ", "F", "1">>),
       exporter |-> Some(<<"A", ",", " ", "B">>),
       net_weight_kg |-> Some(5), certification |-> Some(<<"X">>)],
      [id |-> Some(2), farmer_id |-> Some(<<"f", "2">>),
       exporter |-> Some(<<"B">>),
       net_weight_kg |-> Some(3), certification |-> Some(<<"Y">>)],
      [id |-> Some(3), farmer_id |-> Some(<<"f", "3">>),
       exporter |-> NA,
       net_weight_kg |-> Some(2), certification |-> NA] }

FarmerRows ==
    { [id |-> Some(1), farmer_id |-> Some(<<" ", "F", "1", " ">>), area_ha |-> Some(2)],
      [id |-> Some(2), farmer_id |-> Some(<<"f", "1">>), area_ha |-> Some(4)],
      [id |-> Some(3), farmer_id |-> Some(<<"f", "2">>), area_ha |-> Some(1)] }

QuotaRow(k) ==
    [quota_status |-> Some(IF k % 2 = 1 THEN <<"o", "k">> ELSE <<"o", "v", "e", "r">>),
     quota_used_pct |-> Some(40 * k)]

\* Tables of at most n rows of S, no row twice (rows carry a primary key).
TablesOf(S, n) ==
    UNION { { t \in [1..k -> S] : \A i, j \in 1..k : t[i] = t[j] => i = j } : k \in 0..n }

QuotaTables(n) == { [i \in 1..k |-> QuotaRow(i)] : k \in 0..n }

---------------------------------------------------------------------------
\* pandas / str helpers.
RECURSIVE lstrip(_)
lstrip(s) == IF s # <<>> /\ Head(s) = " " THEN lstrip(Tail(s)) ELSE s

RECURSIVE rstrip(_)
rstrip(s) == IF s # <<>> /\ s[Len(s)] = " " THEN rstrip(SubSeq(s, 1, Len(s) - 1)) ELSE s

strip(s) == rstrip(lstrip(s))

lower_char(ch) ==
    CASE ch = "F" -> "f"
      [] ch = "A" -> "a"
      [] ch = "B" -> "b"
      [] ch = "N" -> "n"
      [] ch = "X" -> "x"
      [] ch = "Y" -> "y"
      [] OTHER -> ch

lower(s) == [i \in 1..Len(s) |-> lower_char(s[i])]

\* Series.astype(str): a missing value (JSON null) becomes the text "None".
astype_str(c) == IF isna(c) THEN <<"N", "o", "n", "e">> ELSE val(c)

\* sel in s
contains(s, sel) ==
    \E i \in 1..(Len(s) - Len(sel) + 1) : SubSeq(s, i, i + Len(sel) - 1) = sel

\* str.split(r",\s*"): cut at each comma, the blanks after it belong to the cut.
RECURSIVE split(_, _)
split(s, cur) ==
    IF s = <<>> THEN <<cur>>
    ELSE IF Head(s) = "," THEN <<cur>> \o split(lstrip(Tail(s)), <<>>)
    ELSE split(Tail(s), Append(cur, Head(s)))

Range(f) == { f[i] : i \in DOMAIN f }

RECURSIVE SumCells(_)
\* Series.sum(): missing values are skipped.
SumCells(cs) ==
    IF cs = <<>> THEN 0
    ELSE (IF isna(Head(cs)) THEN 0 ELSE val(Head(cs))) + SumCells(Tail(cs))

Column(df, col) == [i \in 1..Len(df.rows) |-> df.rows[i][col]]

\* pd.DataFrame(all_rows): the columns are the keys of the rows.
DataFrame(rows) ==
    [columns |-> UNION { DOMAIN rows[i] : i \in 1..Len(rows) }, rows |-> rows]

\* df.empty taken for a table that is never empty.
empty_never(df) == FALSE

\* df.empty
empty(df) == Len(df.rows) = 0 \/ df.columns = {}

\* df[mask]
RECURSIVE SelectRows(_, _)
SelectRows(rows, mask) ==
    IF rows = <<>> THEN <<>>
    ELSE (IF mask[1] THEN <<Head(rows)>> ELSE <<>>)
         \o SelectRows(Tail(rows), Tail(mask))

Restrict(df, mask) == [columns |-> df.columns, rows |-> SelectRows(df.rows, mask)]

SetCol(row, col, c) == [k \in DOMAIN row \cup {col} |-> IF k = col THEN c ELSE row[k]]

ensure_col(df, col, default) ==
    IF col \notin df.columns
    THEN [columns |-> df.columns \cup {col},
          rows |-> [i \in 1..Len(df.rows) |-> SetCol(df.rows[i], col, default)]]
    ELSE df

\* pd.to_numeric(errors='coerce') on a column of JSON numbers and nulls.
to_numeric(c) == IF isna(c) THEN NA ELSE c

coerce_numeric(df, col) ==
    [columns |-> df.columns,
     rows |-> [i \in 1..Len(df.rows) |->
                 SetCol(df.rows[i], col, to_numeric(df.rows[i][col]))]]

\* .astype(str).str.strip().str.lower()
normalize_id(c) == Some(lower(strip(astype_str(c))))

normalize_ids(df) ==
    [columns |-> df.columns,
     rows |-> [i \in 1..Len(df.rows) |->
                 SetCol(df.rows[i], "farmer_id", normalize_id(df.rows[i].farmer_id))]]

\* drop_duplicates with keep='last'.
drop_duplicates_keep_last(df) ==
    Restrict(df, [i \in 1..Len(df.rows) |->
                    \A j \in (i + 1)..Len(df.rows) :
                        df.rows[j].farmer_id # df.rows[i].farmer_id])

\* The dedup left out.
drop_duplicates_skipped(df) == df

\* drop_duplicates(subset='farmer_id'): the first row of each key is kept.
drop_duplicates(df) ==
    Restrict(df, [i \in 1..Len(df.rows) |->
                    \A j \in 1..(i - 1) : df.rows[j].farmer_id # df.rows[i].farmer_id])

---------------------------------------------------------------------------
\* The remote store: .range(lo, hi).execute() on a collection, result.data.
range(collection, lo, hi) ==
    SubSeq(collection, lo + 1, IF hi + 1 < Len(collection) THEN hi + 1 ELSE Len(collection))

\* What a page request can end in: a page, a PostgREST APIError, or another
\* exception of the client (the connection failed).
Outcomes == {"ok", "APIError", "ConnectError"}

Exception(type) ==
    [type |-> type,
     args |-> IF type = "APIError" THEN <<"bad request">>
              ELSE IF type = "NameError" THEN <<"name 'trace_df' is not defined">>
              ELSE <<"connection failed">>]

\* An exception nobody catches ends the run; Streamlit shows it on the page.
Uncaught(e) == [kind |-> "exception", type |-> e.type, args |-> e.args]

Terminal == {"done", "stopped", "crashed"}

EmptyCache ==
    [load_traceability |-> NotCached, load_quota_view |-> NotCached,
     load_farmers |-> NotCached, get_total_traceability_count |-> NA]

---------------------------------------------------------------------------
Init ==
    /\ \E t \in TablesOf(TraceRows, MaxRows), f \in TablesOf(FarmerRows, MaxRows),
          q \in QuotaTables(MaxRows) :
            remote = [traceability |-> t, quota_view |-> q, farmers |-> f]
    /\ page_size \in 1..MaxPageSize
    /\ cache = EmptyCache
    /\ pc = "idle"
    /\ debug = FALSE
    /\ clear = FALSE
    /\ trace_df = Unbound
    /\ quota_df = Unbound
    /\ farmers_df = Unbound
    /\ offset = 0
    /\ all_rows = <<>>
    /\ requests = <<>>
    /\ selected_exporters = {}
    /\ trace_df_filtered = Unbound
    /\ selected_area_min = NA
    /\ out = <<>>
    /\ stages = <<>>

\* A user interaction (or the first visit) starts the script from its top
\* with the widgets' current values and an empty namespace.
Run ==
    /\ pc \in Terminal \cup {"idle"}
    /\ debug' \in BOOLEAN
    /\ clear' \in BOOLEAN
    /\ pc' = "debug"
    /\ trace_df' = Unbound
    /\ quota_df' = Unbound
    /\ farmers_df' = Unbound
    /\ offset' = 0
    /\ all_rows' = <<>>
    /\ requests' = <<>>
    /\ selected_exporters' = {}
    /\ trace_df_filtered' = Unbound
    /\ selected_area_min' = NA
    /\ out' = <<>>
    /\ stages' = <<>>
    /\ UNCHANGED <<remote, page_size, cache>>

\* Lines 102-106: with the box ticked the script reads trace_df, quota_df and
\* farmers_df, which are assigned only at lines 113-115.
DebugToggle ==
    /\ pc = "debug"
    /\ IF debug
       THEN /\ stages' = Append(stages, "debug_read")
            /\ IF bound(trace_df)
               THEN /\ out' = out \o <<[kind |-> "write", label |-> "trace_df columns:"],
                                       [kind |-> "write", label |-> "quota_df columns:"],
                                       [kind |-> "write", label |-> "farmers_df columns:"]>>
                    /\ pc' = "clear"
               ELSE /\ out' = Append(out, Uncaught(Exception("NameError")))
                    /\ pc' = "crashed"
       ELSE /\ pc' = "clear"
            /\ UNCHANGED <<out, stages>>
    /\ UNCHANGED <<remote, page_size, cache, debug, clear, trace_df, quota_df,
                   farmers_df, offset, all_rows, requests, selected_exporters,
                   trace_df_filtered, selected_area_min>>

\* Lines 108-110.
ClearCache ==
    /\ pc = "clear"
    /\ cache' = IF clear THEN EmptyCache ELSE cache
    /\ pc' = "load_traceability"
    /\ UNCHANGED <<remote, page_size, debug, clear, trace_df, quota_df, farmers_df,
                   offset, all_rows, requests, selected_exporters, trace_df_filtered,
                   selected_area_min, out, stages>>

---------------------------------------------------------------------------
\* The variables a loader's steps leave alone.
LoaderFrame ==
    UNCHANGED <<remote, page_size, debug, clear, selected_exporters,
                trace_df_filtered, selected_area_min>>

\* short_page with the comparison off by one.
short_page_le(rows) == Len(rows) <= page_size

\* len(rows) < page_size, the early exit of load_quota_view (line 69).
short_page(rows) == Len(rows) < page_size

\* Line 113: the call of load_traceability.  st.cache_data returns the
\* memoized table when it holds one, else the body runs (lines 23-25).
load_traceability ==
    /\ pc = "load_traceability"
    /\ stages' = Append(stages, "load_traceability")
    /\ IF cache.load_traceability # NotCached
       THEN /\ trace_df' = cache.load_traceability
            /\ pc' = "load_quota_view"
            /\ requests' = <<>>
            /\ UNCHANGED <<offset, all_rows>>
       ELSE /\ offset' = 0
            /\ all_rows' = <<>>
            /\ requests' = <<>>
            /\ pc' = "fetch_traceability"
            /\ UNCHANGED trace_df
    /\ UNCHANGED <<cache, quota_df, farmers_df, out>>
    /\ LoaderFrame

\* Lines 27-35: one pass of the while loop, or the return after the break.
fetch_traceability ==
    /\ pc = "fetch_traceability"
    /\ \E outcome \in Outcomes :
        IF outcome # "ok"
        THEN \* execute() raises; nothing in load_traceability catches it
             /\ requests' = Append(requests, [offset |-> offset, ok |-> FALSE, got |-> 0])
             /\ out' = Append(out, Uncaught(Exception(outcome)))
             /\ pc' = "crashed"
             /\ UNCHANGED <<offset, all_rows, trace_df, cache>>
        ELSE LET rows == range(remote.traceability, offset, offset + page_size - 1) IN
             /\ requests' = Append(requests,
                                   [offset |-> offset, ok |-> TRUE, got |-> Len(rows)])
             /\ IF rows = <<>>
                THEN /\ trace_df' = DataFrame(all_rows)
                     /\ cache' = [cache EXCEPT !.load_traceability = DataFrame(all_rows)]
                     /\ pc' = "load_quota_view"
                     /\ UNCHANGED <<offset, all_rows>>
                ELSE /\ all_rows' = all_rows \o rows
                     /\ offset' = offset + page_size
                     /\ pc' = "fetch_traceability"
                     /\ UNCHANGED <<trace_df, cache>>
             /\ UNCHANGED out
    /\ UNCHANGED <<quota_df, farmers_df, stages>>
    /\ LoaderFrame

\* Line 114: the call of load_quota_view (lines 42-45 when not memoized).
load_quota_view ==
    /\ pc = "load_quota_view"
    /\ stages' = Append(stages, "load_quota_view")
    /\ IF cache.load_quota_view # NotCached
       THEN /\ quota_df' = cache.load_quota_view
            /\ pc' = "load_farmers"
            /\ requests' = <<>>
            /\ UNCHANGED <<offset, all_rows>>
       ELSE /\ offset' = 0
            /\ all_rows' = <<>>
            /\ requests' = <<>>
            /\ pc' = "fetch_quota_view"
            /\ UNCHANGED quota_df
    /\ UNCHANGED <<cache, trace_df, farmers_df, out>>
    /\ LoaderFrame

\* Lines 47-74: one pass of the while loop, or the return after a break.
fetch_quota_view ==
    /\ pc = "fetch_quota_view"
    /\ \E outcome \in Outcomes :
        CASE outcome = "APIError" ->
             \* lines 56-61: reported on the page, then st.stop()
             LET e == Exception(outcome) IN
             /\ requests' = Append(requests, [offset |-> offset, ok |-> FALSE, got |-> 0])
             /\ out' = out \o
                  <<[kind |-> "error",
                     text |-> "Failed to load quota_view (PostgREST APIError)."],
                    [kind |-> "write", label |-> "Error payload:", value |-> e.args[1]],
                    [kind |-> "write", label |-> "Full exception:", value |-> e]>>
             /\ pc' = "stopped"
             /\ UNCHANGED <<offset, all_rows, quota_df, cache>>
          [] outcome = "ConnectError" ->
             \* not an APIError: the except clause does not apply
             /\ requests' = Append(requests, [offset |-> offset, ok |-> FALSE, got |-> 0])
             /\ out' = Append(out, Uncaught(Exception(outcome)))
             /\ pc' = "crashed"
             /\ UNCHANGED <<offset, all_rows, quota_df, cache>>
          [] OTHER ->
             LET rows == range(remote.quota_view, offset, offset + page_size - 1) IN
             /\ requests' = Append(requests,
                                   [offset |-> offset, ok |-> TRUE, got |-> Len(rows)])
             /\ IF rows = <<>>
                THEN /\ quota_df' = DataFrame(all_rows)
                     /\ cache' = [cache EXCEPT !.load_quota_view = DataFrame(all_rows)]
                     /\ pc' = "load_farmers"
                     /\ UNCHANGED <<offset, all_rows>>
                ELSE IF short_page(rows)
                THEN /\ all_rows' = all_rows \o rows
                     /\ quota_df' = DataFrame(all_rows \o rows)
                     /\ cache' = [cache EXCEPT
                                    !.load_quota_view = DataFrame(all_rows \o rows)]
                     /\ pc' = "load_farmers"
                     /\ UNCHANGED offset
                ELSE /\ all_rows' = all_rows \o rows
                     /\ offset' = offset + page_size
                     /\ pc' = "fetch_quota_view"
                     /\ UNCHANGED <<quota_df, cache>>
             /\ UNCHANGED out
    /\ UNCHANGED <<trace_df, farmers_df, stages>>
    /\ LoaderFrame

\* Line 115: the call of load_farmers (lines 79-81 when not memoized).
load_farmers ==
    /\ pc = "load_farmers"
    /\ stages' = Append(stages, "load_farmers")
    /\ IF cache.load_farmers # NotCached
       THEN /\ farmers_df' = cache.load_farmers
            /\ pc' = "preprocess"
            /\ requests' = <<>>
            /\ UNCHANGED <<offset, all_rows>>
       ELSE /\ offset' = 0
            /\ all_rows' = <<>>
            /\ requests' = <<>>
            /\ pc' = "fetch_farmers"
            /\ UNCHANGED farmers_df
    /\ UNCHANGED <<cache, trace_df, quota_df, out>>
    /\ LoaderFrame

\* Lines 82-89: one pass of the while loop, or the return after the break.
fetch_farmers ==
    /\ pc = "fetch_farmers"
    /\ \E outcome \in Outcomes :
        IF outcome # "ok"
        THEN /\ requests' = Append(requests, [offset |-> offset, ok |-> FALSE, got |-> 0])
             /\ out' = Append(out, Uncaught(Exception(outcome)))
             /\ pc' = "crashed"
             /\ UNCHANGED <<offset, all_rows, farmers_df, cache>>
        ELSE LET rows == range(remote.farmers, offset, offset + page_size - 1) IN
             /\ requests' = Append(requests,
                                   [offset |-> offset, ok |-> TRUE, got |-> Len(rows)])
             /\ IF rows = <<>>
                THEN /\ farmers_df' = DataFrame(all_rows)
                     /\ cache' = [cache EXCEPT !.load_farmers = DataFrame(all_rows)]
                     /\ pc' = "preprocess"
                     /\ UNCHANGED <<offset, all_rows>>
                ELSE /\ all_rows' = all_rows \o rows
                     /\ offset' = offset + page_size
                     /\ pc' = "fetch_farmers"
                     /\ UNCHANGED <<farmers_df, cache>>
             /\ UNCHANGED out
    /\ UNCHANGED <<trace_df, quota_df, stages>>
    /\ LoaderFrame

---------------------------------------------------------------------------
\* Lines 117-140: required columns, numeric coercion, id normalization and
\* the dedup of farmers_df.
Preprocess ==
    /\ pc = "preprocess"
    /\ stages' = Append(stages, "preprocess")
    /\ trace_df' =
         normalize_ids(
           coerce_numeric(
             ensure_col(ensure_col(ensure_col(ensure_col(trace_df,
               "net_weight_kg", NA), "farmer_id", NA), "exporter", NA),
               "certification", NA),
             "net_weight_kg"))
    /\ quota_df' =
         coerce_numeric(
           ensure_col(ensure_col(quota_df, "quota_used_pct", NA), "quota_status", NA),
           "quota_used_pct")
    /\ farmers_df' =
         drop_duplicates(
           normalize_ids(
             ensure_col(ensure_col(farmers_df, "farmer_id", NA), "area_ha", NA)))
    /\ pc' = "filter_exporter"
    /\ UNCHANGED <<remote, page_size, cache, debug, clear, offset, all_rows, requests,
                   selected_exporters, trace_df_filtered, selected_area_min, out>>

\* Lines 147-154: the exporter names found in the column, as a set.
flat_exporters(df) ==
    { strip(e) : e \in UNION { Range(split(val(df.rows[i].exporter), <<>>)) :
                                 i \in { k \in 1..Len(df.rows) :
                                           ~isna(df.rows[k].exporter) } } }
      \ {<<>>}

\* matches_any_exporter asking for every selected name instead of any.
matches_all_exporters(v, selected) ==
    IF selected = {} THEN TRUE
    ELSE IF isna(v) THEN FALSE
    ELSE \A sel \in selected : contains(astype_str(v), sel)

\* matches_any_exporter testing for a missing value before the selection.
matches_any_exporter_na_first(v, selected) ==
    IF isna(v) THEN FALSE
    ELSE IF selected = {} THEN TRUE
    ELSE \E sel \in selected : contains(astype_str(v), sel)

\* Lines 161-167, with the global selected_exporters as a parameter.
matches_any_exporter(v, selected) ==
    IF selected = {} THEN TRUE
    ELSE IF isna(v) THEN FALSE
    ELSE \E sel \in selected : contains(astype_str(v), sel)

\* Line 169: trace_df[trace_df['exporter'].apply(matches_any_exporter)]
filter_by_exporter(df, selected) ==
    Restrict(df, [i \in 1..Len(df.rows) |->
                    matches_any_exporter(df.rows[i].exporter, selected)])

\* Lines 144-175: the multiselect, the exporter filter and its empty check.
ExporterFilter ==
    /\ pc = "filter_exporter"
    /\ stages' = Append(stages, "filter_exporter")
    /\ \E selected \in SUBSET flat_exporters(trace_df) :
        LET filtered == filter_by_exporter(trace_df, selected) IN
        /\ selected_exporters' = selected
        /\ trace_df_filtered' = filtered
        /\ IF empty(filtered)
           THEN /\ out' = Append(out,
                     [kind |-> "warning",
                      text |-> "No traceability data for the selected exporter(s)."])
                /\ pc' = "stopped"
           ELSE /\ pc' = "merge"
                /\ UNCHANGED out
    /\ UNCHANGED <<remote, page_size, cache, debug, clear, trace_df, quota_df,
                   farmers_df, offset, all_rows, requests, selected_area_min>>

\* DataFrame.merge(right[['farmer_id', 'area_ha']], on='farmer_id', how='left'):
\* every left row once per right row with its key, or once with a missing
\* area_ha when there is none.
RECURSIVE merge_rows(_, _)
merge_rows(left, right) ==
    IF left = <<>> THEN <<>>
    ELSE LET l == Head(left)
             m == SelectSeq(right, LAMBDA r : r.farmer_id = l.farmer_id)
         IN  (IF m = <<>>
              THEN <<SetCol(l, "area_ha", NA)>>
              ELSE [i \in 1..Len(m) |-> SetCol(l, "area_ha", m[i].area_ha)])
             \o merge_rows(Tail(left), right)

merge(left, right) ==
    [columns |-> left.columns \cup {"area_ha"}, rows |-> merge_rows(left.rows, right.rows)]

\* Lines 177-182.
MergeArea ==
    /\ pc = "merge"
    /\ stages' = Append(stages, "merge")
    /\ trace_df_filtered' = merge(trace_df_filtered, farmers_df)
    /\ pc' = "filter_area"
    /\ UNCHANGED <<remote, page_size, cache, debug, clear, trace_df, quota_df,
                   farmers_df, offset, all_rows, requests, selected_exporters,
                   selected_area_min, out>>

Present(cs) == { val(cs[i]) : i \in { k \in DOMAIN cs : ~isna(cs[k]) } }

Max(S) == CHOOSE x \in S : \A y \in S : y <= x

Min(S) == CHOOSE x \in S : \A y \in S : x <= y

\* Lines 184-197: the slider (any value from 0.0 to max_area, on the integer
\* grid here), the area filter and its empty check.
AreaFilter ==
    /\ pc = "filter_area"
    /\ stages' = Append(stages, "filter_area")
    /\ LET areas == Present(Column(trace_df_filtered, "area_ha")) IN
       IF areas # {}
       THEN \E chosen \in 0..Max(areas) :
              LET kept == Restrict(trace_df_filtered,
                            [i \in 1..Len(trace_df_filtered.rows) |->
                               /\ ~isna(trace_df_filtered.rows[i].area_ha)
                               /\ val(trace_df_filtered.rows[i].area_ha) >= chosen])
              IN  /\ selected_area_min' = Some(chosen)
                  /\ trace_df_filtered' = kept
                  /\ IF empty(kept)
                     THEN /\ out' = Append(out,
                               [kind |-> "warning",
                                text |-> "No data left after applying area filter."])
                          /\ pc' = "stopped"
                     ELSE /\ pc' = "dashboard"
                          /\ UNCHANGED out
       ELSE /\ selected_area_min' = NA
            /\ UNCHANGED trace_df_filtered
            /\ IF empty(trace_df_filtered)
               THEN /\ out' = out \o
                         <<[kind |-> "warning",
                            text |-> "No area data available. Area filter disabled."],
                           [kind |-> "warning",
                            text |-> "No data left after applying area filter."]>>
                    /\ pc' = "stopped"
               ELSE /\ out' = Append(out,
                         [kind |-> "warning",
                          text |-> "No area data available. Area filter disabled."])
                    /\ pc' = "dashboard"
    /\ UNCHANGED <<remote, page_size, cache, debug, clear, trace_df, quota_df,
                   farmers_df, offset, all_rows, requests, selected_exporters>>

---------------------------------------------------------------------------
\* Aggregates.

\* Series.nunique()
nunique(cs) == Cardinality(Present(cs))

RowsWhere(df, col, c) == SelectSeq(df.rows, LAMBDA r : r[col] = c)

\* df.groupby(key)[col].sum(): one group per present key value.
groupby_sum(df, key, col) ==
    { [key |-> Some(k),
       sum |-> SumCells([i \in 1..Len(RowsWhere(df, key, Some(k))) |->
                           RowsWhere(df, key, Some(k))[i][col]])] :
      k \in Present(Column(df, key)) }

\* Series.value_counts(): missing values are not counted.
value_counts(cs) ==
    { [value |-> Some(v), count |-> Cardinality({ i \in DOMAIN cs : cs[i] = Some(v) })] :
      v \in Present(cs) }

\* value_counts(normalize=True) * 100, as the fraction <<100 * count, total>>.
value_share(cs) ==
    { [value |-> g.value,
       percentage |-> <<100 * g.count,
                        Cardinality({ i \in DOMAIN cs : ~isna(cs[i]) })>>] :
      g \in value_counts(cs) }

\* sort_values(ascending=False).head(10): the groups fewer than ten others beat.
head(groups, n) ==
    { g \in groups : Cardinality({ h \in groups : h.sum > g.sum }) < n }

\* (kg / 1000).round(2), in hundredths of a tonne; round() takes halves to even.
volume_mt(kg) ==
    LET q == kg \div 10
        r == kg % 10
    IN  IF r < 5 THEN q
        ELSE IF r > 5 THEN q + 1
        ELSE IF q % 2 = 0 THEN q ELSE q + 1

\* Line 203.
total_net_weight == SumCells(Column(trace_df, "net_weight_kg"))

\* Line 205.
total_area == SumCells(Column(trace_df_filtered, "area_ha"))

\* Line 262.
top_farmers == head(groupby_sum(trace_df_filtered, "farmer_id", "net_weight_kg"), TopN)

\* Lines 268-270.
cert_counts == value_share(Column(trace_df_filtered, "certification"))

\* Lines 283-285.
volume_by_cert ==
    { [certification |-> g.key, volume_mt |-> volume_mt(g.sum)] :
      g \in groupby_sum(trace_df_filtered, "certification", "net_weight_kg") }

\* Lines 215-221.
coverage ==
    LET total_farmers_in_farmers == nunique(Column(farmers_df, "farmer_id"))
        total_farmers_in_trace == nunique(Column(trace_df, "farmer_id"))
    IN  IF total_farmers_in_farmers # 0
        THEN Some(<<total_farmers_in_trace * 100, total_farmers_in_farmers>>)
        ELSE NA

\* Lines 199-296.  get_total_traceability_count (lines 91-94) is called at
\* line 209, after the first metric is on the page; its request can fail.
Dashboard ==
    /\ pc = "dashboard"
    /\ stages' = Append(stages, "dashboard")
    /\ LET first == <<[kind |-> "title"],
                      [kind |-> "metric", label |-> "Total Net Weight (kg)",
                       value |-> total_net_weight]>>
           rest(count) ==
                    <<[kind |-> "metric", label |-> "Total Deliveries", value |-> count],
                      [kind |-> "metric", label |-> "Total Area (ha)", value |-> total_area],
                      [kind |-> "metric", label |-> "Farmers in Traceability",
                       value |-> nunique(Column(trace_df, "farmer_id"))],
                      [kind |-> "metric", label |-> "Farmers in Farmers Table",
                       value |-> nunique(Column(farmers_df, "farmer_id"))],
                      [kind |-> "metric", label |-> "Coverage (%)", value |-> coverage],
                      [kind |-> "chart", label |-> "Quota Compliance Status",
                       value |-> value_counts(Column(quota_df, "quota_status"))],
                      [kind |-> "chart", label |-> "Top 10 Farmers by Net Weight",
                       value |-> top_farmers],
                      [kind |-> "chart", label |-> "Certification Distribution (%)",
                       value |-> cert_counts],
                      [kind |-> "table", label |-> "Certified Volumes (in MT)",
                       value |-> volume_by_cert],
                      [kind |-> "table", label |-> "Full Traceability Data",
                       value |-> trace_df_filtered],
                      [kind |-> "download", label |-> "Download CSV",
                       value |-> trace_df_filtered]>>
       IN  IF ~isna(cache.get_total_traceability_count)
           THEN /\ out' = out \o first \o rest(val(cache.get_total_traceability_count))
                /\ pc' = "done"
                /\ UNCHANGED cache
           ELSE \E outcome \in Outcomes :
                  IF outcome # "ok"
                  THEN /\ out' = out \o first \o <<Uncaught(Exception(outcome))>>
                       /\ pc' = "crashed"
                       /\ UNCHANGED cache
                  ELSE /\ out' = out \o first \o rest(Len(remote.traceability))
                       /\ cache' = [cache EXCEPT !.get_total_traceability_count =
                                                   Some(Len(remote.traceability))]
                       /\ pc' = "done"
    /\ UNCHANGED <<remote, page_size, debug, clear, trace_df, quota_df, farmers_df,
                   offset, all_rows, requests, selected_exporters, trace_df_filtered,
                   selected_area_min>>

---------------------------------------------------------------------------
Next ==
    \/ Run
    \/ DebugToggle
    \/ ClearCache
    \/ load_traceability
    \/ fetch_traceability
    \/ load_quota_view
    \/ fetch_quota_view
    \/ load_farmers
    \/ fetch_farmers
    \/ Preprocess
    \/ ExporterFilter
    \/ MergeArea
    \/ AreaFilter
    \/ Dashboard

Spec == Init /\ [][Next]_vars

---------------------------------------------------------------------------
\* Vocabulary of the properties.

LastStage == IF stages = <<>> THEN "none" ELSE stages[Len(stages)]

Loaders == {"load_traceability", "load_quota_view", "load_farmers"}

\* The table the script binds to the result of a loader, and its collection.
FrameOf(loader) ==
    CASE loader = "load_traceability" -> trace_df
      [] loader = "load_quota_view" -> quota_df
      [] OTHER -> farmers_df

CollectionOf(loader) ==
    CASE loader = "load_traceability" -> remote.traceability
      [] loader = "load_quota_view" -> remote.quota_view
      [] OTHER -> remote.farmers

\* The last page request of the running fetch was refused by the store.
FetchFailed ==
    /\ LastStage \in Loaders
    /\ requests # <<>>
    /\ ~requests[Len(requests)].ok

ExporterMsg == "No traceability data for the selected exporter(s)."

AreaMsg == "No data left after applying area filter."

Results == {"title", "metric", "chart", "table", "download"}

Shown(label) ==
    (CHOOSE i \in 1..Len(out) : out[i].kind \in Results \ {"title"} /\ out[i].label = label)

\* Indices of the rows of df the exporter filter keeps under a selection.
Kept(df, selected) ==
    { i \in 1..Len(df.rows) : matches_any_exporter(df.rows[i].exporter, selected) }

---------------------------------------------------------------------------
\* C1: when the store refuses a page, the fetch ends without a table, the
\* request is not repeated, no later section of the script runs, and the
\* error shown carries the failing page's offset and the cause.

\* The part without the offset: no table, no retry, no later stage, the cause.
FetchFailureAborts ==
    FetchFailed =>
        /\ pc \in {"stopped", "crashed"}
        /\ ~bound(FrameOf(LastStage))
        /\ cache[LastStage] = NotCached
        /\ \A i \in 1..(Len(requests) - 1) : requests[i].ok
        /\ \E i \in 1..Len(out) :
              \/ out[i].kind = "exception" /\ out[i].args # <<>>
              \/ out[i].kind = "write" /\ out[i].label = "Error payload:"

C1_FetchErrorCarriesOffset ==
    FetchFailed =>
        /\ FetchFailureAborts
        /\ \E i \in 1..Len(out) :
              /\ "offset" \in DOMAIN out[i]
              /\ out[i].offset = requests[Len(requests)].offset

---------------------------------------------------------------------------
\* C2: pagination is transparent.  Whatever the page size, a loader that
\* returns hands back exactly the rows of its collection, each once and in
\* remote order (an empty collection gives an empty table and no error),
\* and a fetch over n rows ends within n / page_size + 2 requests.
C2_PaginationTransparent ==
    /\ \A loader \in Loaders :
          cache[loader] # NotCached =>
              /\ cache[loader].rows = CollectionOf(loader)
              /\ (CollectionOf(loader) = <<>> => cache[loader] = DataFrame(<<>>))
    /\ \A loader \in Loaders :
          (LastStage = loader /\ bound(FrameOf(loader))) =>
              /\ FrameOf(loader).rows = CollectionOf(loader)
              /\ \A i \in 1..Len(out) : out[i].kind \notin {"exception", "error"}
    /\ LastStage \in Loaders =>
          /\ Len(requests) <= (Len(CollectionOf(LastStage)) \div page_size) + 2
          /\ all_rows = SubSeq(CollectionOf(LastStage), 1, Len(all_rows))

\* A fetch of two pages and a closing empty one has returned its two rows.
C2_Witness ==
    /\ pc = "load_quota_view"
    /\ Len(requests) = 3
    /\ page_size = 1
    /\ trace_df.rows = remote.traceability
    /\ Len(trace_df.rows) = 2

---------------------------------------------------------------------------
\* C3: every loader asks for the pages at offsets 0, p, 2p, ... in turn and
\* issues no request once a page came back with fewer than p rows.
C3_NoRequestAfterShortPage ==
    LastStage \in Loaders =>
        /\ \A i \in 1..Len(requests) : requests[i].offset = (i - 1) * page_size
        /\ \A i \in 1..(Len(requests) - 1) :
              requests[i].ok /\ requests[i].got >= page_size

---------------------------------------------------------------------------
\* C4 as claimed, the empty selection included: the exporter filter is
\* monotonic, a larger selection keeps at least the rows a smaller one keeps.
C4_MonotonicWithEmpty ==
    LastStage = "filter_exporter" =>
        \A S2 \in SUBSET flat_exporters(trace_df) : \A S1 \in SUBSET S2 :
            Kept(trace_df, S1) \subseteq Kept(trace_df, S2)

\* C4 as amended: of two selections the smaller of which is not empty, the
\* larger keeps at least the rows the smaller keeps; in particular the rows
\* the run kept contain those any non-empty part of its selection keeps.
C4_MonotonicNonEmpty ==
    LastStage = "filter_exporter" =>
        /\ \A S2 \in SUBSET flat_exporters(trace_df) : \A S1 \in SUBSET S2 :
              S1 # {} => Kept(trace_df, S1) \subseteq Kept(trace_df, S2)
        /\ \A S1 \in SUBSET selected_exporters :
              S1 # {} =>
                  \A i \in Kept(trace_df, S1) :
                      \E j \in 1..Len(trace_df_filtered.rows) :
                          trace_df_filtered.rows[j] = trace_df.rows[i]

\* The run filtered by two tags, one of which alone keeps strictly less.
C4_Witness ==
    /\ pc = "merge"
    /\ \E S1 \in SUBSET selected_exporters :
          /\ S1 # {}
          /\ Kept(trace_df, S1) # Kept(trace_df, selected_exporters)
          /\ Kept(trace_df, S1) # {}

---------------------------------------------------------------------------
\* C5: with nothing selected the exporter filter returns the table as it
\* is, rows without an exporter included; with something selected no row
\* without an exporter is kept.
C5_EmptySelectionKeepsAll ==
    LastStage = "filter_exporter" =>
        /\ selected_exporters = {} => trace_df_filtered = trace_df
        /\ selected_exporters # {} =>
              \A i \in 1..Len(trace_df_filtered.rows) :
                  ~isna(trace_df_filtered.rows[i].exporter)

\* The user emptied the selection over a table that has a row with and a
\* row without an exporter.
C5_Witness ==
    /\ pc = "merge"
    /\ selected_exporters = {}
    /\ flat_exporters(trace_df) # {}
    /\ \E i \in 1..Len(trace_df_filtered.rows) : isna(trace_df_filtered.rows[i].exporter)

---------------------------------------------------------------------------
\* C6: the aggregates of the dashboard range over the filtered table: the
\* net weight total, the area total, the top farmers, the certification
\* shares and volumes (the record count of the remote collection excepted).
C6_AggregatesOverFiltered ==
    pc = "done" =>
        /\ out[Shown("Total Net Weight (kg)")].value
              = SumCells(Column(trace_df_filtered, "net_weight_kg"))
        /\ out[Shown("Total Area (ha)")].value
              = SumCells(Column(trace_df_filtered, "area_ha"))
        /\ \A g \in out[Shown("Top 10 Farmers by Net Weight")].value :
              g.sum = SumCells(Column([columns |-> trace_df_filtered.columns,
                                       rows |-> RowsWhere(trace_df_filtered,
                                                          "farmer_id", g.key)],
                                      "net_weight_kg"))
        /\ \A g \in out[Shown("Certification Distribution (%)")].value :
              g.percentage[1] = 100 * Cardinality(
                  { i \in 1..Len(trace_df_filtered.rows) :
                      trace_df_filtered.rows[i].certification = g.value })
        /\ out[Shown("Total Deliveries")].value = Len(remote.traceability)

---------------------------------------------------------------------------
\* C7: an empty working table ends the run at the filter that emptied it,
\* with that filter's own message and before anything later: after the
\* exporter filter no merge, area filter or aggregate, after the area
\* filter no aggregate; no result is on the page of such a run.
C7_EmptyStopsAtStage ==
    /\ ExporterMsg # AreaMsg
    /\ (LastStage = "filter_exporter" /\ Len(trace_df_filtered.rows) = 0) =>
          /\ pc = "stopped"
          /\ out[Len(out)] = [kind |-> "warning", text |-> ExporterMsg]
    /\ (LastStage = "filter_area" /\ Len(trace_df_filtered.rows) = 0) =>
          /\ pc = "stopped"
          /\ out[Len(out)] = [kind |-> "warning", text |-> AreaMsg]
    /\ LastStage \in {"merge", "filter_area", "dashboard"} =>
          /\ Len(trace_df.rows) > 0
          /\ \A i \in 1..Len(out) :
                out[i].kind = "warning" => out[i].text # ExporterMsg
    /\ LastStage = "dashboard" =>
          /\ Len(trace_df_filtered.rows) > 0
          /\ \A i \in 1..Len(out) : out[i].kind = "warning" => out[i].text # AreaMsg
    /\ (\E i \in 1..Len(out) : out[i].kind \in Results) =>
          /\ LastStage = "dashboard"
          /\ Len(trace_df_filtered.rows) > 0

\* The exporter filter left nothing and the run stopped there.
C7_Witness ==
    /\ pc = "stopped"
    /\ LastStage = "filter_exporter"
    /\ Len(trace_df_filtered.rows) = 0
    /\ out = <<[kind |-> "warning", text |-> ExporterMsg]>>

---------------------------------------------------------------------------
\* C8: after normalization and dedup no two rows of farmers_df share a
\* farmer_id; every normalized id of the loaded table is on exactly one
\* row, the first of the loaded rows that has it; ids that differ in case
\* or surrounding blanks only ("  F1 " and "f1") are one key and one row.
Preprocessed == \E i \in 1..Len(stages) : stages[i] = "preprocess"

LoadedFarmers == cache.load_farmers.rows

C8_DedupFirstOccurrence ==
    Preprocessed =>
        /\ \A i, j \in 1..Len(farmers_df.rows) :
              farmers_df.rows[i].farmer_id = farmers_df.rows[j].farmer_id => i = j
        /\ \A k \in 1..Len(LoadedFarmers) :
              LET key == normalize_id(LoadedFarmers[k].farmer_id)
                  first == Min({ m \in 1..Len(LoadedFarmers) :
                                   normalize_id(LoadedFarmers[m].farmer_id) = key })
                  hits == { i \in 1..Len(farmers_df.rows) :
                              farmers_df.rows[i].farmer_id = key }
              IN  /\ Cardinality(hits) = 1
                  /\ \A i \in hits :
                        /\ farmers_df.rows[i].id = LoadedFarmers[first].id
                        /\ farmers_df.rows[i].area_ha = LoadedFarmers[first].area_ha
        /\ \A k \in 1..Len(LoadedFarmers) :
              LoadedFarmers[k].farmer_id
                  \in {Some(<<" ", "F", "1", " ">>), Some(<<"f", "1">>)} =>
                      Cardinality({ i \in 1..Len(farmers_df.rows) :
                                      farmers_df.rows[i].farmer_id = Some(<<"f", "1">>) }) = 1

\* " F1 " and "f1" were both loaded and one row is left.
C8_Witness ==
    /\ Preprocessed
    /\ Len(LoadedFarmers) = 2
    /\ Len(farmers_df.rows) = 1
    /\ LoadedFarmers[1].farmer_id = Some(<<" ", "F", "1", " ">>)
    /\ farmers_df.rows[1].farmer_id = Some(<<"f", "1">>)

---------------------------------------------------------------------------
\* C9: the merge of area_ha keeps the delivery table as it is: as many
\* rows after as before, each row with its values, in its place, gaining
\* only area_ha, which is missing when no farmer has the row's farmer_id.
C9_LeftJoinPreservesRows ==
    [][ pc = "merge" =>
          /\ Len(trace_df_filtered'.rows) = Len(trace_df_filtered.rows)
          /\ \A i \in 1..Len(trace_df_filtered.rows) :
                /\ \A c \in trace_df_filtered.columns :
                      trace_df_filtered'.rows[i][c] = trace_df_filtered.rows[i][c]
                /\ (\A k \in 1..Len(farmers_df.rows) :
                       farmers_df.rows[k].farmer_id
                           # trace_df_filtered.rows[i].farmer_id)
                      => isna(trace_df_filtered'.rows[i].area_ha) ]_vars

\* A merge over two spellings of one farmer id gave one delivery its area
\* and left another, of an unknown farmer, without.
C9_Witness ==
    /\ pc = "filter_area"
    /\ Len(LoadedFarmers) > Len(farmers_df.rows)
    /\ \E i \in 1..Len(trace_df_filtered.rows) : isna(trace_df_filtered.rows[i].area_ha)
    /\ \E i \in 1..Len(trace_df_filtered.rows) : ~isna(trace_df_filtered.rows[i].area_ha)

---------------------------------------------------------------------------
\* C10: in every run the data goes one way: nothing reads the three tables
\* before the loaders have run, preprocessing comes before every filter and
\* the merge, and the merge comes before the filters.
Before(a, b) ==
    \A i \in 1..Len(stages) :
        stages[i] = b => \E j \in 1..(i - 1) : stages[j] = a

C10_OneDirection ==
    /\ Before("load_traceability", "debug_read")
    /\ Before("load_quota_view", "debug_read")
    /\ Before("load_farmers", "debug_read")
    /\ \A i \in 1..Len(out) : out[i].kind = "exception" => out[i].type # "NameError"
    /\ Before("load_traceability", "preprocess")
    /\ Before("preprocess", "filter_exporter")
    /\ Before("preprocess", "merge")
    /\ Before("merge", "filter_exporter")
    /\ Before("merge", "filter_area")
    /\ Before("filter_area", "dashboard")

\* The same without the two places the script departs from it: the debug
\* read and the exporter filter ahead of the merge.
OrderOfTheRest ==
    /\ Before("load_traceability", "load_quota_view")
    /\ Before("load_quota_view", "load_farmers")
    /\ Before("load_farmers", "preprocess")
    /\ Before("preprocess", "filter_exporter")
    /\ Before("filter_exporter", "merge")
    /\ Before("merge", "filter_area")
    /\ Before("filter_area", "dashboard")

===========================================================================
